---- MODULE Spec2Model ----
(***************************************************************************)
(* Signal-derivation engine of metal_etf_trading.py: the two ratio         *)
(* calculators, generate_trading_signals (ratios, per-instrument momentum, *)
(* macro environment) and the composite score that main() derives from     *)
(* the produced records.                                                    *)
(*                                                                         *)
(* Prices and percentages are floating-point numbers in the source.  Here  *)
(* they are exact rationals <<numerator, denominator>> in lowest terms     *)
(* with a positive denominator, so every comparison against a threshold    *)
(* (90, 82, 1.5, 0.8, 4.5, ...) is decided on the exact value.  Display    *)
(* strings (emoji labels, Korean texts, formatted descriptions) are not    *)
(* part of the decision logic; records keep level, score and the numeric   *)
(* payload.                                                                 *)
(***************************************************************************)
EXTENDS Integers, Sequences, FiniteSets, TLC

VARIABLES
    called,           \* name of the operation that has run, "none" before any call
    gold_price,       \* arguments of the last ratio-calculator call
    silver_price,
    copper_price,
    ratio_signal,     \* what the ratio calculator returned (a record or None)
    metal_data,       \* argument of generate_trading_signals / result of fetch_etf_data
    supporting_data,  \* argument of generate_trading_signals / result of fetch_supporting_data
    momentum_locals,  \* locals of the momentum loop body, per instrument key
    signals,          \* dict returned by generate_trading_signals
    composite         \* avg_score and class computed by main()

vars == <<called, gold_price, silver_price, copper_price, ratio_signal,
          metal_data, supporting_data, momentum_locals, signals, composite>>

----------------------------------------------------------------------------
(* Exact rational arithmetic standing for the float arithmetic of the code *)

Abs(n) == IF n < 0 THEN -n ELSE n

RECURSIVE Gcd(_, _)
Gcd(a, b) == IF b = 0 THEN a ELSE Gcd(b, a % b)

\* lowest terms, positive denominator (q[2] # 0)
Norm(q) ==
    LET g == Gcd(Abs(q[1]), Abs(q[2]))
        s == IF q[2] < 0 THEN -1 ELSE 1
    IN  <<(s * q[1]) \div g, (s * q[2]) \div g>>

R(n) == <<n, 1>>
RSub(x, y) == Norm(<<x[1] * y[2] - y[1] * x[2], x[2] * y[2]>>)
RMul(x, y) == Norm(<<x[1] * y[1], x[2] * y[2]>>)
RDiv(x, y) == Norm(<<x[1] * y[2], x[2] * y[1]>>)
RLt(x, y) == x[1] * y[2] < y[1] * x[2]
RGt(x, y) == RLt(y, x)
RGe(x, y) == ~RLt(x, y)
RLe(x, y) == ~RLt(y, x)
IsZero(x) == x[1] = 0

\* Python's None
None == [none |-> TRUE]
IsNone(r) == "none" \in DOMAIN r
\* truth value of "if x:" for a value that is None or a non-empty dict
Truthy(r) == ~IsNone(r)

\* the empty dict
EmptyDict == <<>>

----------------------------------------------------------------------------
(* RatioAnalyzer *)

\* the dict literal both calculators return, without its display strings
RatioRecord(ratio, level, score) ==
    [ratio |-> ratio, level |-> level, score |-> score]

\* variant: the 82 test made before the 90 test
calculate_gold_silver_ratio_reordered(gold, silver) ==
    IF IsZero(silver) THEN None
    ELSE LET ratio == RDiv(gold, silver) IN
         IF RGt(ratio, R(82)) THEN RatioRecord(ratio, "buy_silver", 4)
         ELSE IF RGt(ratio, R(90)) THEN RatioRecord(ratio, "strong_buy_silver", 5)
         ELSE IF RLt(ratio, R(60)) THEN RatioRecord(ratio, "strong_buy_gold", 5)
         ELSE IF RLt(ratio, R(68)) THEN RatioRecord(ratio, "buy_gold", 4)
         ELSE RatioRecord(ratio, "neutral", 3)

\* variant: inclusive comparisons at 90 and 68
calculate_gold_silver_ratio_inclusive(gold, silver) ==
    IF IsZero(silver) THEN None
    ELSE LET ratio == RDiv(gold, silver) IN
         IF RGe(ratio, R(90)) THEN RatioRecord(ratio, "strong_buy_silver", 5)
         ELSE IF RGt(ratio, R(82)) THEN RatioRecord(ratio, "buy_silver", 4)
         ELSE IF RLt(ratio, R(60)) THEN RatioRecord(ratio, "strong_buy_gold", 5)
         ELSE IF RLe(ratio, R(68)) THEN RatioRecord(ratio, "buy_gold", 4)
         ELSE RatioRecord(ratio, "neutral", 3)

calculate_gold_silver_ratio(gold, silver) ==
    IF IsZero(silver) THEN None
    ELSE LET ratio == RDiv(gold, silver) IN
         IF RGt(ratio, R(90)) THEN RatioRecord(ratio, "strong_buy_silver", 5)
         ELSE IF RGt(ratio, R(82)) THEN RatioRecord(ratio, "buy_silver", 4)
         ELSE IF RLt(ratio, R(60)) THEN RatioRecord(ratio, "strong_buy_gold", 5)
         ELSE IF RLt(ratio, R(68)) THEN RatioRecord(ratio, "buy_gold", 4)
         ELSE RatioRecord(ratio, "neutral", 3)

\* variant: the unit-scaling factor 1000 left out
calculate_copper_gold_ratio_unscaled(copper, gold) ==
    IF IsZero(gold) THEN None
    ELSE LET ratio == RDiv(copper, gold) IN
         IF RGt(ratio, <<3, 2>>) THEN RatioRecord(ratio, "risk_on", 4)
         ELSE IF RLt(ratio, <<4, 5>>) THEN RatioRecord(ratio, "risk_off", 2)
         ELSE RatioRecord(ratio, "balanced", 3)

calculate_copper_gold_ratio(copper, gold) ==
    IF IsZero(gold) THEN None
    ELSE LET ratio == RMul(RDiv(copper, gold), R(1000)) IN
         IF RGt(ratio, <<3, 2>>) THEN RatioRecord(ratio, "risk_on", 4)
         ELSE IF RLt(ratio, <<4, 5>>) THEN RatioRecord(ratio, "risk_off", 2)
         ELSE RatioRecord(ratio, "balanced", 3)

----------------------------------------------------------------------------
(* Fetched data: what fetch_etf_data and fetch_supporting_data build from   *)
(* a non-empty series of closes, oldest first                               *)

\* pandas .iloc[i] on a series: i >= 0 counts from the start, i < 0 from the end
Iloc(seq, i) == IF i < 0 THEN seq[Len(seq) + i + 1] ELSE seq[i + 1]

\* (current - reference) / reference * 100
PctChange(current, reference) ==
    RMul(RDiv(RSub(current, reference), reference), R(100))

\* data[key] of fetch_etf_data
EtfRecord(etf_hist, futures_hist) ==
    [ etf_history     |-> etf_hist,
      futures_current |-> Iloc(futures_hist, -1),
      futures_prev    |-> IF Len(futures_hist) >= 2 THEN Iloc(futures_hist, -2)
                          ELSE Iloc(futures_hist, -1),
      etf_current     |-> Iloc(etf_hist, -1),
      etf_prev        |-> IF Len(etf_hist) >= 2 THEN Iloc(etf_hist, -2)
                          ELSE Iloc(etf_hist, -1) ]

\* data[key] of fetch_supporting_data
SupportingRecord(hist) ==
    [ current    |-> Iloc(hist, -1),
      prev       |-> IF Len(hist) >= 2 THEN Iloc(hist, -2) ELSE Iloc(hist, -1),
      change_pct |-> IF Len(hist) >= 2
                     THEN PctChange(Iloc(hist, -1), Iloc(hist, -2))
                     ELSE R(0) ]

\* the keys of METAL_ETFS and of SUPPORTING_INDICES
Instruments == {"gold", "silver", "copper"}
Indices == {"dxy", "us10y", "spx", "vix"}

\* fetch_etf_data: an instrument is kept only when both of its series are
\* non-empty (<< >> stands for an empty or failed download)
fetch_etf_data(etf_hists, futures_hists) ==
    [ key \in {k \in Instruments : etf_hists[k] # << >> /\ futures_hists[k] # << >>}
        |-> EtfRecord(etf_hists[key], futures_hists[key]) ]

\* fetch_supporting_data: an index is kept only when its series is non-empty
fetch_supporting_data(hists) ==
    [ key \in {k \in Indices : hists[k] # << >>} |-> SupportingRecord(hists[key]) ]

----------------------------------------------------------------------------
(* MomentumClassifier: the body of the loop over metal_data.items() *)

\* variant: month reference one observation too far back
month_ago_price_off_by_one(data) ==
    LET hist == data.etf_history IN
    IF Len(hist) >= 21 THEN Iloc(hist, -21) ELSE Iloc(hist, 0)

month_ago_price(data) ==
    LET hist == data.etf_history IN
    IF Len(hist) >= 20 THEN Iloc(hist, -20) ELSE Iloc(hist, 0)

quarter_ago_price(data) ==
    LET hist == data.etf_history IN
    IF Len(hist) >= 60 THEN Iloc(hist, -60) ELSE Iloc(hist, 0)

ytd_price(data) == Iloc(data.etf_history, 0)

\* variant: the tally counts a change that merely reaches its threshold
momentum_score_inclusive(month_change, quarter_change, ytd_change) ==
      (IF RGe(month_change, R(5)) THEN 1 ELSE 0)
    + (IF RGe(quarter_change, R(10)) THEN 1 ELSE 0)
    + (IF RGe(ytd_change, R(15)) THEN 1 ELSE 0)

\* variant: a change below the mirrored threshold lowers the tally
momentum_score_symmetric(month_change, quarter_change, ytd_change) ==
      (IF RGt(month_change, R(5)) THEN 1
       ELSE IF RLt(month_change, R(-5)) THEN -1 ELSE 0)
    + (IF RGt(quarter_change, R(10)) THEN 1
       ELSE IF RLt(quarter_change, R(-10)) THEN -1 ELSE 0)
    + (IF RGt(ytd_change, R(15)) THEN 1
       ELSE IF RLt(ytd_change, R(-15)) THEN -1 ELSE 0)

momentum_score(month_change, quarter_change, ytd_change) ==
      (IF RGt(month_change, R(5)) THEN 1 ELSE 0)
    + (IF RGt(quarter_change, R(10)) THEN 1 ELSE 0)
    + (IF RGt(ytd_change, R(15)) THEN 1 ELSE 0)

\* variant: a tally of 2 or 3 gives a buy level whatever the day change
MomentumLevel_ignoring_day(tally, etf_change) ==
    IF tally >= 2
      THEN [level |-> IF tally = 3 THEN "strong_buy" ELSE "buy",
            score |-> IF tally = 3 THEN 5 ELSE 4]
    ELSE IF tally <= -2 /\ RLt(etf_change, R(0))
      THEN [level |-> "strong_sell", score |-> 1]
    ELSE IF RLt(etf_change, R(-2))
      THEN [level |-> "sell", score |-> 2]
    ELSE [level |-> "neutral", score |-> 3]

\* variant: the sell branch scores 1
MomentumLevel_sell_scored_one(tally, etf_change) ==
    IF tally >= 2 /\ RGt(etf_change, R(0))
      THEN [level |-> IF tally = 3 THEN "strong_buy" ELSE "buy",
            score |-> IF tally = 3 THEN 5 ELSE 4]
    ELSE IF tally <= -2 /\ RLt(etf_change, R(0))
      THEN [level |-> "strong_sell", score |-> 1]
    ELSE IF RLt(etf_change, R(-2))
      THEN [level |-> "sell", score |-> 1]
    ELSE [level |-> "neutral", score |-> 3]

\* the if / elif chain on momentum_score and etf_change
MomentumLevel(tally, etf_change) ==
    IF tally >= 2 /\ RGt(etf_change, R(0))
      THEN [level |-> IF tally = 3 THEN "strong_buy" ELSE "buy",
            score |-> IF tally = 3 THEN 5 ELSE 4]
    ELSE IF tally <= -2 /\ RLt(etf_change, R(0))
      THEN [level |-> "strong_sell", score |-> 1]
    ELSE IF RLt(etf_change, R(-2))
      THEN [level |-> "sell", score |-> 2]
    ELSE [level |-> "neutral", score |-> 3]

\* the local variables of one loop iteration
MomentumLocals(data) ==
    LET etf_change     == PctChange(data.etf_current, data.etf_prev)
        month_change   == PctChange(data.etf_current, month_ago_price(data))
        quarter_change == PctChange(data.etf_current, quarter_ago_price(data))
        ytd_change     == PctChange(data.etf_current, ytd_price(data))
        tally          == momentum_score(month_change, quarter_change, ytd_change)
        lv             == MomentumLevel(tally, etf_change)
    IN  [ etf_change        |-> etf_change,
          month_ago_price   |-> month_ago_price(data),
          month_change      |-> month_change,
          quarter_ago_price |-> quarter_ago_price(data),
          quarter_change    |-> quarter_change,
          ytd_price         |-> ytd_price(data),
          ytd_change        |-> ytd_change,
          momentum_score    |-> tally,
          signal_level      |-> lv.level,
          score             |-> lv.score ]

\* signals[f'{key}_momentum']
MomentumRecord(data) ==
    LET l == MomentumLocals(data) IN
    [ level      |-> l.signal_level,
      action     |-> IF l.score >= 4 THEN "buy"
                     ELSE IF l.score <= 2 THEN "sell" ELSE "hold",
      score      |-> l.score,
      day_change |-> l.etf_change ]

MomentumKey(key) == key \o "_momentum"

----------------------------------------------------------------------------
(* MacroAggregator: section 4 of generate_trading_signals *)

NoFactor == [delta |-> 0, factors |-> << >>]

\* variant: a strong equity day also raises the score
SpxStep_scoring(supporting) ==
    IF supporting # EmptyDict /\ "spx" \in DOMAIN supporting
      THEN LET spx_change == supporting["spx"].change_pct IN
           IF RGt(spx_change, R(1))
             THEN [delta |-> 1, factors |-> << <<"spx_strong", spx_change>> >>]
           ELSE IF RLt(spx_change, R(-1))
             THEN [delta |-> 0, factors |-> << <<"spx_weak", spx_change>> >>]
           ELSE NoFactor
      ELSE NoFactor

DxyStep(supporting) ==
    IF supporting # EmptyDict /\ "dxy" \in DOMAIN supporting
      THEN LET dxy_change == supporting["dxy"].change_pct IN
           IF RGt(dxy_change, R(1))
             THEN [delta |-> -1, factors |-> << <<"dxy_strong", dxy_change>> >>]
           ELSE IF RLt(dxy_change, R(-1))
             THEN [delta |-> 1, factors |-> << <<"dxy_weak", dxy_change>> >>]
           ELSE NoFactor
      ELSE NoFactor

VixStep(supporting) ==
    IF supporting # EmptyDict /\ "vix" \in DOMAIN supporting
      THEN LET vix_level == supporting["vix"].current IN
           IF RGt(vix_level, R(25))
             THEN [delta |-> 0, factors |-> << <<"vix_high", vix_level>> >>]
           ELSE IF RLt(vix_level, R(15))
             THEN [delta |-> 0, factors |-> << <<"vix_low", vix_level>> >>]
           ELSE NoFactor
      ELSE NoFactor

SpxStep(supporting) ==
    IF supporting # EmptyDict /\ "spx" \in DOMAIN supporting
      THEN LET spx_change == supporting["spx"].change_pct IN
           IF RGt(spx_change, R(1))
             THEN [delta |-> 0, factors |-> << <<"spx_strong", spx_change>> >>]
           ELSE IF RLt(spx_change, R(-1))
             THEN [delta |-> 0, factors |-> << <<"spx_weak", spx_change>> >>]
           ELSE NoFactor
      ELSE NoFactor

\* the fixed description used when no factor fired
NormalRange == << "normal_range" >>

\* variant: every factor that fires moves the score
MacroRecord_all_factors_scored(supporting) ==
    LET macro_factors == DxyStep(supporting).factors \o VixStep(supporting).factors
                           \o SpxStep(supporting).factors
        fired == {macro_factors[i][1] : i \in 1..Len(macro_factors)}
        macro_score == 3 + Cardinality(fired \cap {"dxy_weak", "vix_low", "spx_strong"})
                         - Cardinality(fired \cap {"dxy_strong", "vix_high", "spx_weak"})
    IN  [ level       |-> IF macro_score >= 4 THEN "favorable"
                          ELSE IF macro_score <= 2 THEN "unfavorable"
                          ELSE "neutral",
          description |-> IF macro_factors # << >> THEN macro_factors
                          ELSE NormalRange,
          score       |-> macro_score ]

\* signals['macro_environment']
MacroRecord(supporting) ==
    LET macro_score   == 3 + DxyStep(supporting).delta + VixStep(supporting).delta
                           + SpxStep(supporting).delta
        macro_factors == DxyStep(supporting).factors \o VixStep(supporting).factors
                           \o SpxStep(supporting).factors
    IN  [ level       |-> IF macro_score >= 4 THEN "favorable"
                          ELSE IF macro_score <= 2 THEN "unfavorable"
                          ELSE "neutral",
          description |-> IF macro_factors # << >> THEN macro_factors
                          ELSE NormalRange,
          score       |-> macro_score ]

----------------------------------------------------------------------------
(* generate_trading_signals *)

\* variant: the early return on empty metal_data left out
generate_trading_signals_no_early_return(metal, supporting) ==
    LET momentum_part ==
            [ mk \in {MomentumKey(key) : key \in DOMAIN metal} |->
                MomentumRecord(metal[CHOOSE key \in DOMAIN metal :
                                        MomentumKey(key) = mk]) ]
    IN  momentum_part @@ ("macro_environment" :> MacroRecord(supporting))

\* variant: the result of the gold/silver calculator stored unconditionally
generate_trading_signals_storing_none(metal, supporting) ==
    IF metal = EmptyDict THEN EmptyDict
    ELSE
    LET gs_part ==
            IF "gold" \in DOMAIN metal /\ "silver" \in DOMAIN metal
              THEN "gold_silver_ratio" :>
                      calculate_gold_silver_ratio(metal["gold"].futures_current,
                                                  metal["silver"].futures_current)
              ELSE EmptyDict
        cg_part ==
            IF "copper" \in DOMAIN metal /\ "gold" \in DOMAIN metal
              THEN "copper_gold_ratio" :>
                      calculate_copper_gold_ratio(metal["copper"].futures_current,
                                                  metal["gold"].futures_current)
              ELSE EmptyDict
        momentum_part ==
            [ mk \in {MomentumKey(key) : key \in DOMAIN metal} |->
                MomentumRecord(metal[CHOOSE key \in DOMAIN metal :
                                        MomentumKey(key) = mk]) ]
    IN  gs_part @@ cg_part @@ momentum_part
          @@ ("macro_environment" :> MacroRecord(supporting))

generate_trading_signals(metal, supporting) ==
    IF metal = EmptyDict THEN EmptyDict
    ELSE
    LET gs_part ==
            IF "gold" \in DOMAIN metal /\ "silver" \in DOMAIN metal
              THEN LET gs_signal ==
                         calculate_gold_silver_ratio(metal["gold"].futures_current,
                                                     metal["silver"].futures_current)
                   IN  IF Truthy(gs_signal) THEN "gold_silver_ratio" :> gs_signal
                       ELSE EmptyDict
              ELSE EmptyDict
        cg_part ==
            IF "copper" \in DOMAIN metal /\ "gold" \in DOMAIN metal
              THEN LET cg_signal ==
                         calculate_copper_gold_ratio(metal["copper"].futures_current,
                                                     metal["gold"].futures_current)
                   IN  IF Truthy(cg_signal) THEN "copper_gold_ratio" :> cg_signal
                       ELSE EmptyDict
              ELSE EmptyDict
        momentum_part ==
            [ mk \in {MomentumKey(key) : key \in DOMAIN metal} |->
                MomentumRecord(metal[CHOOSE key \in DOMAIN metal :
                                        MomentumKey(key) = mk]) ]
    IN  gs_part @@ cg_part @@ momentum_part
          @@ ("macro_environment" :> MacroRecord(supporting))

----------------------------------------------------------------------------
(* SignalCombinator: the composite score main() derives from signals *)

RECURSIVE SumScores(_, _)
SumScores(sigs, keys) ==
    IF keys = {} THEN 0
    ELSE LET k == CHOOSE x \in keys : TRUE
         IN  sigs[k].score + SumScores(sigs, keys \ {k})

\* the if / elif chain on avg_score
SigClass(avg_score) ==
    IF RGe(avg_score, <<9, 2>>) THEN "signal-strong-buy"
    ELSE IF RGe(avg_score, <<7, 2>>) THEN "signal-buy"
    ELSE IF RGe(avg_score, <<5, 2>>) THEN "signal-neutral"
    ELSE IF RGe(avg_score, R(2)) THEN "signal-sell"
    ELSE "signal-strong-sell"

\* variant: floor division of the total by the count
CompositeSignal_floor_division(sigs) ==
    LET scored == IF sigs = EmptyDict THEN {}
                  ELSE {k \in DOMAIN sigs : "score" \in DOMAIN sigs[k]}
        total_score == SumScores(sigs, scored)
        avg_score == IF sigs # EmptyDict
                       THEN R(total_score \div Cardinality(scored))
                       ELSE R(3)
    IN  [avg_score |-> avg_score, sig_class |-> SigClass(avg_score)]

CompositeSignal(sigs) ==
    LET scored == IF sigs = EmptyDict THEN {}
                  ELSE {k \in DOMAIN sigs : "score" \in DOMAIN sigs[k]}
        total_score == SumScores(sigs, scored)
        avg_score == IF sigs # EmptyDict
                       THEN RDiv(R(total_score), R(Cardinality(scored)))
                       ELSE R(3)
    IN  [avg_score |-> avg_score, sig_class |-> SigClass(avg_score)]

----------------------------------------------------------------------------
(* Bounded inputs of the ratio calculators *)

MaxGold == 300
MaxSilver == 3
MaxCopper == 50

\* whole prices from -1 (a negative quote) up to the bound, plus the
\* prices of the documented scenarios (gold 2000, silver 20, copper 4.5)
GoldPrices == {R(g) : g \in -1..MaxGold} \cup {R(2000)}
SilverPrices == {R(s) : s \in -1..MaxSilver} \cup {R(20)}
\* copper is quoted in tenths
CopperPrices == {Norm(<<c, 10>>) : c \in -1..MaxCopper}

----------------------------------------------------------------------------
(* Bounded inputs of generate_trading_signals *)

MaxLen == 61

\* a series of n closes ending ... c, d, e whose value changes 20 and 60
\* observations before the end
Piecewise(n, a, b, c, d, e) ==
    [ i \in 1..n |->
        LET k == n - i IN
        IF k = 0 THEN e ELSE IF k = 1 THEN d
        ELSE IF k <= 19 THEN c ELSE IF k <= 59 THEN b ELSE a ]

\* a series of n pairwise different closes, rising or falling by one
Ramp(n, step) == [ i \in 1..n |-> R(100 + step * i) ]

RefCloses == {R(100), R(120)}
CurCloses == {R(97), R(98), R(100), R(105), R(106), R(110), R(111), R(115), R(116)}

\* day -3%, month -1%, quarter -2%, since start -1%
ScenarioHistory ==
    Piecewise(61, <<9700, 99>>, <<4850, 49>>, <<9700, 99>>, R(100), R(97))

MomentumHistories ==
    {Piecewise(n, a, b, c, d, e) :
        n \in 1..MaxLen, a \in RefCloses, b \in RefCloses, c \in RefCloses,
        d \in RefCloses \cup {R(98)}, e \in CurCloses}
    \cup {Ramp(n, step) : n \in 1..MaxLen, step \in {-1, 1}}
    \cup {ScenarioHistory}

\* one instrument with a long history, no supporting index
MomentumInputs ==
    { << fetch_etf_data([k \in Instruments |-> IF k = key THEN h ELSE << >>],
                        [k \in Instruments |-> << R(2000) >>]),
         EmptyDict >> :
      key \in Instruments, h \in MomentumHistories }

\* latest windows of the supporting indices: absent, one or two observations
ChangeHists == {<< >>, << R(100) >>} \cup {<< R(100), R(c) >> : c \in 98..102}
VixHists == {<< >>} \cup {<< R(20), R(v) >> : v \in {14, 15, 16, 24, 25, 26}}
SupportingInputs ==
    { fetch_supporting_data(h) :
        h \in [dxy : ChangeHists, spx : ChangeHists, vix : VixHists,
               us10y : {<< >>, << R(4) >>}] }

\* gold alone, every combination of supporting indices
MacroInputs ==
    { << fetch_etf_data([k \in Instruments |->
                            IF k = "gold" THEN << R(100), R(101) >> ELSE << >>],
                        [k \in Instruments |-> << R(2000) >>]),
         sd >> : sd \in SupportingInputs }

\* every subset of instruments, with zero and non-zero futures prices
ShortHists == {<< >>, << R(100) >>, << R(100), R(97) >>}
FuturesHists ==
    [ gold   : {<< R(0) >>, << R(2000) >>, << R(1990), R(1640) >>},
      silver : {<< >>, << R(0) >>, << R(20) >>},
      copper : {<< R(0) >>, << R(1) >>, << R(3) >>, << <<9, 2>> >>} ]
AvailabilityInputs ==
    { << fetch_etf_data(e, f), sd >> :
        e \in [Instruments -> ShortHists], f \in FuturesHists,
        sd \in { EmptyDict,
                 fetch_supporting_data([k \in Indices |->
                     IF k = "dxy" THEN << R(100), R(102) >> ELSE << >>]) } }

SignalInputs == MomentumInputs \cup MacroInputs \cup AvailabilityInputs

----------------------------------------------------------------------------
(* Bounded inputs of the composite: every set of records generate_trading_ *)
(* signals has a key for, each with a score of the record range            *)

SignalKeys ==
    {"gold_silver_ratio", "copper_gold_ratio", "macro_environment"}
        \cup {MomentumKey(key) : key \in Instruments}

ScoredRecords == [score : 1..5]

RecordSets ==
    UNION { [keys -> ScoredRecords] : keys \in SUBSET SignalKeys }

----------------------------------------------------------------------------

Init ==
    /\ called = "none"
    /\ gold_price = None
    /\ silver_price = None
    /\ copper_price = None
    /\ ratio_signal = None
    /\ metal_data = EmptyDict
    /\ supporting_data = EmptyDict
    /\ momentum_locals = EmptyDict
    /\ signals = EmptyDict
    /\ composite = None

CalculateGoldSilverRatio ==
    /\ called = "none"
    /\ \E g \in GoldPrices, s \in SilverPrices :
          /\ gold_price' = g
          /\ silver_price' = s
          /\ ratio_signal' = calculate_gold_silver_ratio(g, s)
    /\ called' = "calculate_gold_silver_ratio"
    /\ UNCHANGED <<copper_price, metal_data, supporting_data, momentum_locals,
                   signals, composite>>

CalculateCopperGoldRatio ==
    /\ called = "none"
    /\ \E c \in CopperPrices, g \in GoldPrices :
          /\ copper_price' = c
          /\ gold_price' = g
          /\ ratio_signal' = calculate_copper_gold_ratio(c, g)
    /\ called' = "calculate_copper_gold_ratio"
    /\ UNCHANGED <<silver_price, metal_data, supporting_data, momentum_locals,
                   signals, composite>>

GenerateTradingSignals ==
    /\ called = "none"
    /\ \E input \in SignalInputs :
          /\ metal_data' = input[1]
          /\ supporting_data' = input[2]
          /\ momentum_locals' =
                IF input[1] = EmptyDict THEN EmptyDict
                ELSE [key \in DOMAIN input[1] |-> MomentumLocals(input[1][key])]
          /\ signals' = generate_trading_signals(input[1], input[2])
    /\ called' = "generate_trading_signals"
    /\ UNCHANGED <<gold_price, silver_price, copper_price, ratio_signal, composite>>

\* the composite block of main() applied to a set of records
CompositeOfRecords ==
    /\ called = "none"
    /\ \E sigs \in RecordSets :
          /\ signals' = sigs
          /\ composite' = CompositeSignal(sigs)
    /\ called' = "composite"
    /\ UNCHANGED <<gold_price, silver_price, copper_price, ratio_signal,
                   metal_data, supporting_data, momentum_locals>>

\* one run of main(): fetch, stop on no data, else signals and composite
Main ==
    /\ called = "none"
    /\ \E input \in SignalInputs :
          /\ metal_data' = input[1]
          /\ supporting_data' = input[2]
          /\ IF input[1] = EmptyDict
               THEN /\ momentum_locals' = EmptyDict
                    /\ signals' = EmptyDict
                    /\ composite' = None
               ELSE /\ momentum_locals' =
                          [key \in DOMAIN input[1] |-> MomentumLocals(input[1][key])]
                    /\ signals' = generate_trading_signals(input[1], input[2])
                    /\ composite' =
                          CompositeSignal(generate_trading_signals(input[1], input[2]))
    /\ called' = "main"
    /\ UNCHANGED <<gold_price, silver_price, copper_price, ratio_signal>>

NextRatio == CalculateGoldSilverRatio \/ CalculateCopperGoldRatio

SpecRatio == Init /\ [][NextRatio]_vars

NextSignals == GenerateTradingSignals

SpecSignals == Init /\ [][NextSignals]_vars

NextAnalysis == NextRatio \/ NextSignals

SpecAnalysis == Init /\ [][NextAnalysis]_vars

NextComposite == CompositeOfRecords \/ Main

SpecComposite == Init /\ [][NextComposite]_vars

Next == NextRatio \/ NextSignals \/ NextComposite

Spec == Init /\ [][Next]_vars

----------------------------------------------------------------------------
(* Properties of the ratio calculators *)

\* C1: for every gold price and every silver price > 0 the gold/silver
\* record carries ratio = gold/silver, exactly one row of the band table
\* (>90, (82,90], <60, [60,68), [68,82]) applies to that ratio, and the
\* record's level and score are those of that row.
C1_GoldSilverTable ==
    (called = "calculate_gold_silver_ratio" /\ silver_price[1] > 0) =>
        LET n == gold_price[1] * silver_price[2]
            d == gold_price[2] * silver_price[1]      \* ratio = n / d, d > 0
            rows == << n > 90 * d,
                       82 * d < n /\ n <= 90 * d,
                       n < 60 * d,
                       60 * d <= n /\ n < 68 * d,
                       68 * d <= n /\ n <= 82 * d >>
            levels == << "strong_buy_silver", "buy_silver", "strong_buy_gold",
                         "buy_gold", "neutral" >>
            scores == << 5, 4, 5, 4, 3 >>
        IN  /\ ~IsNone(ratio_signal)
            /\ ratio_signal.ratio[2] > 0
            /\ ratio_signal.ratio[1] * d = n * ratio_signal.ratio[2]
            /\ Cardinality({i \in 1..5 : rows[i]}) = 1
            /\ \A i \in 1..5 : rows[i] =>
                  /\ ratio_signal.level = levels[i]
                  /\ ratio_signal.score = scores[i]

\* C1 witness: gold 2000, silver 20 gave ratio 100, strong_buy_silver, 5
C1_Witness ==
    /\ called = "calculate_gold_silver_ratio"
    /\ gold_price = R(2000) /\ silver_price = R(20)
    /\ ratio_signal = [ratio |-> R(100), level |-> "strong_buy_silver", score |-> 5]

\* the level returned for a gold/silver call whose ratio is exactly r
LevelAtRatio(r, level) ==
    (/\ called = "calculate_gold_silver_ratio"
     /\ ~IsZero(silver_price)
     /\ gold_price[1] * silver_price[2] = r * gold_price[2] * silver_price[1])
        => (~IsNone(ratio_signal) /\ ratio_signal.level = level)

\* C2 as stated: 82.0 -> buy_silver, 90.0 -> buy_silver, 68.0 -> neutral,
\* 60.0 -> buy_gold.
C2_BoundariesAsStated ==
    /\ LevelAtRatio(82, "buy_silver")
    /\ LevelAtRatio(90, "buy_silver")
    /\ LevelAtRatio(68, "neutral")
    /\ LevelAtRatio(60, "buy_gold")

\* C2 amended: at the exact boundaries the classification is
\* 82.0 -> neutral, 90.0 -> buy_silver, 68.0 -> neutral, 60.0 -> buy_gold.
C2_Boundaries ==
    /\ LevelAtRatio(82, "neutral")
    /\ LevelAtRatio(90, "buy_silver")
    /\ LevelAtRatio(68, "neutral")
    /\ LevelAtRatio(60, "buy_gold")

\* C2 witness: a call whose ratio is exactly 82 (gold 164, silver 2)
C2_Witness ==
    /\ called = "calculate_gold_silver_ratio"
    /\ gold_price = R(164) /\ silver_price = R(2)
    /\ ratio_signal.ratio = R(82)
    /\ ratio_signal.level = "neutral"

\* C3: for every copper price and every gold price # 0 the copper/gold
\* record carries ratio = (copper/gold)*1000 and is risk_on/4 when
\* ratio > 1.5, risk_off/2 when ratio < 0.8, balanced/3 otherwise, both
\* boundaries falling in balanced.
C3_CopperGoldTable ==
    (called = "calculate_copper_gold_ratio" /\ gold_price[1] # 0) =>
        LET sg == IF gold_price[1] < 0 THEN -1 ELSE 1
            n == sg * 1000 * copper_price[1] * gold_price[2]
            d == sg * copper_price[2] * gold_price[1]   \* ratio = n / d, d > 0
            expected == IF 2 * n > 3 * d THEN <<"risk_on", 4>>
                        ELSE IF 5 * n < 4 * d THEN <<"risk_off", 2>>
                        ELSE <<"balanced", 3>>
        IN  /\ ~IsNone(ratio_signal)
            /\ ratio_signal.ratio[2] > 0
            /\ ratio_signal.ratio[1] * d = n * ratio_signal.ratio[2]
            /\ ratio_signal.level = expected[1]
            /\ ratio_signal.score = expected[2]
            /\ (2 * n = 3 * d \/ 5 * n = 4 * d) => ratio_signal.level = "balanced"

\* C3 witness: copper 4.5, gold 2000 gave ratio 2.25, risk_on, 4
C3_Witness ==
    /\ called = "calculate_copper_gold_ratio"
    /\ copper_price = <<9, 2>> /\ gold_price = R(2000)
    /\ ratio_signal = [ratio |-> <<9, 4>>, level |-> "risk_on", score |-> 4]

----------------------------------------------------------------------------
(* Properties of generate_trading_signals *)

\* the instruments handed to generate_trading_signals
Available == IF metal_data = EmptyDict THEN {} ELSE DOMAIN metal_data

Produced == IF signals = EmptyDict THEN {} ELSE DOMAIN signals

\* C4: a zero denominator gives no record and no failure: the gold/silver
\* calculator returns None for every gold price when silver is 0, the
\* copper/gold calculator returns None for every copper price when gold
\* is 0, and generate_trading_signals then has no record of that ratio
\* kind but still has every momentum record and the macro record.
C4_ZeroDenominator ==
    /\ (called = "calculate_gold_silver_ratio" /\ silver_price = R(0))
          => ratio_signal = None
    /\ (called = "calculate_copper_gold_ratio" /\ gold_price = R(0))
          => ratio_signal = None
    /\ (/\ called = "generate_trading_signals"
        /\ {"gold", "silver"} \subseteq Available
        /\ metal_data["silver"].futures_current = R(0))
          => /\ "gold_silver_ratio" \notin Produced
             /\ {MomentumKey(k) : k \in Available} \subseteq Produced
             /\ "macro_environment" \in Produced
    /\ (/\ called = "generate_trading_signals"
        /\ {"copper", "gold"} \subseteq Available
        /\ metal_data["gold"].futures_current = R(0))
          => /\ "copper_gold_ratio" \notin Produced
             /\ {MomentumKey(k) : k \in Available} \subseteq Produced
             /\ "macro_environment" \in Produced

\* C4 witness: all three instruments, silver futures at 0, gold at 2000:
\* no gold/silver record, the copper/gold, momentum and macro records present
C4_Witness ==
    /\ called = "generate_trading_signals"
    /\ Available = Instruments
    /\ metal_data["silver"].futures_current = R(0)
    /\ metal_data["gold"].futures_current = R(2000)
    /\ Produced = {"copper_gold_ratio", "gold_momentum", "silver_momentum",
                   "copper_momentum", "macro_environment"}

\* the number of tally conditions a loop iteration's changes satisfy
StrictTally(l) ==
    Cardinality({i \in 1..3 :
        << l.month_change[1] > 5 * l.month_change[2],
           l.quarter_change[1] > 10 * l.quarter_change[2],
           l.ytd_change[1] > 15 * l.ytd_change[2] >>[i]})

\* C5: for every instrument the momentum record follows from the tally
\* (how many of month > 5, quarter > 10, since-start > 15 hold strictly)
\* and the day change: tally >= 2 and day > 0 gives strong_buy/5 (tally 3)
\* or buy/4 (tally 2); else day < -2 gives sell/2; else neutral/3.  Day -3,
\* month -1, quarter -2, since-start -1 gives tally 0 and sell/2; tally 3
\* with day <= 0 gives no buy level.
C5_MomentumDecision ==
    called = "generate_trading_signals" =>
        \A key \in Available :
            LET l   == momentum_locals[key]
                rec == signals[MomentumKey(key)]
                t   == StrictTally(l)
                day == rec.day_change
                expected ==
                    IF t >= 2 /\ day[1] > 0
                      THEN IF t = 3 THEN <<"strong_buy", 5>> ELSE <<"buy", 4>>
                    ELSE IF day[1] < (-2) * day[2] THEN <<"sell", 2>>
                    ELSE <<"neutral", 3>>
            IN  /\ l.momentum_score = t
                /\ day = PctChange(metal_data[key].etf_current, metal_data[key].etf_prev)
                /\ rec.level = expected[1]
                /\ rec.score = expected[2]
                /\ (/\ day = R(-3) /\ l.month_change = R(-1)
                    /\ l.quarter_change = R(-2) /\ l.ytd_change = R(-1))
                      => (t = 0 /\ rec.level = "sell" /\ rec.score = 2)
                /\ (t = 3 /\ day[1] <= 0) => rec.level \notin {"buy", "strong_buy"}

\* C5 witness: the documented scenario (day -3, month -1, quarter -2,
\* since-start -1) classified sell with score 2
C5_Witness ==
    /\ called = "generate_trading_signals"
    /\ Available = {"gold"}
    /\ metal_data["gold"].etf_history = ScenarioHistory
    /\ momentum_locals["gold"].month_change = R(-1)
    /\ momentum_locals["gold"].quarter_change = R(-2)
    /\ momentum_locals["gold"].ytd_change = R(-1)
    /\ momentum_locals["gold"].momentum_score = 0
    /\ signals["gold_momentum"].day_change = R(-3)
    /\ signals["gold_momentum"].level = "sell"
    /\ signals["gold_momentum"].score = 2

\* C6: for every non-empty series of n closes the month reference is the
\* first close when n < 20 and the 20th close from the end otherwise, the
\* quarter reference is the first close when n < 60 and the 60th close
\* from the end otherwise, the since-start reference is the first close;
\* every length yields a momentum record, and a single observation gives
\* day change 0.
C6_ReferencePrices ==
    called = "generate_trading_signals" =>
        \A key \in Available :
            LET hist == metal_data[key].etf_history
                n    == Len(hist)
                l    == momentum_locals[key]
            IN  /\ n >= 1
                /\ l.month_ago_price = IF n < 20 THEN hist[1] ELSE hist[n - 19]
                /\ l.quarter_ago_price = IF n < 60 THEN hist[1] ELSE hist[n - 59]
                /\ l.ytd_price = hist[1]
                /\ l.month_change = PctChange(hist[n], l.month_ago_price)
                /\ l.quarter_change = PctChange(hist[n], l.quarter_ago_price)
                /\ l.ytd_change = PctChange(hist[n], l.ytd_price)
                /\ MomentumKey(key) \in Produced
                /\ n = 1 => /\ l.etf_change = R(0)
                            /\ signals[MomentumKey(key)].day_change = R(0)

\* C6 witness: a rising series of 61 different closes 101..161 took
\* 142 (20th from the end), 102 (60th from the end) and 101 (first)
C6_Witness ==
    /\ called = "generate_trading_signals"
    /\ Available = {"silver"}
    /\ metal_data["silver"].etf_history = Ramp(61, 1)
    /\ momentum_locals["silver"].month_ago_price = R(142)
    /\ momentum_locals["silver"].quarter_ago_price = R(102)
    /\ momentum_locals["silver"].ytd_price = R(101)

\* C7: for every combination of supplied indices the macro score is 3,
\* minus 1 if the currency index is present with day change > 1, plus 1
\* if it is present with day change < -1, whatever the volatility level
\* and the equity day change; the level is favorable for score >= 4,
\* unfavorable for score <= 2, else neutral; with no index supplied the
\* record is score 3, neutral, with the fixed normal-range description.
C7_MacroScore ==
    (called = "generate_trading_signals" /\ Available # {}) =>
        LET supplied == IF supporting_data = EmptyDict THEN {}
                        ELSE DOMAIN supporting_data
            dxy   == supporting_data["dxy"].change_pct
            up    == IF "dxy" \in supplied /\ dxy[1] > dxy[2] THEN 1 ELSE 0
            down  == IF "dxy" \in supplied /\ dxy[1] < -dxy[2] THEN 1 ELSE 0
            rec   == signals["macro_environment"]
        IN  /\ rec.score = 3 - up + down
            /\ rec.level = IF rec.score >= 4 THEN "favorable"
                           ELSE IF rec.score <= 2 THEN "unfavorable"
                           ELSE "neutral"
            /\ supplied = {} =>
                  rec = [level |-> "neutral", description |-> NormalRange,
                         score |-> 3]

\* C7 witness: currency +2%, volatility 26 and equities +2% all supplied:
\* three factors, score 2, unfavorable
C7_Witness ==
    /\ called = "generate_trading_signals"
    /\ supporting_data # EmptyDict
    /\ {"dxy", "vix", "spx"} \subseteq DOMAIN supporting_data
    /\ supporting_data["dxy"].change_pct = R(2)
    /\ supporting_data["vix"].current = R(26)
    /\ supporting_data["spx"].change_pct = R(2)
    /\ Len(signals["macro_environment"].description) = 3
    /\ signals["macro_environment"].score = 2
    /\ signals["macro_environment"].level = "unfavorable"

\* C9: every record generate_trading_signals produces, of any kind,
\* carries an integer score between 1 and 5.
C9_ScoreRange ==
    called = "generate_trading_signals" =>
        \A k \in Produced :
            /\ "score" \in DOMAIN signals[k]
            /\ signals[k].score \in 1..5

\* C9 witness: a result holding all four kinds of record (six records)
C9_Witness ==
    /\ called = "generate_trading_signals"
    /\ Produced = {"gold_silver_ratio", "copper_gold_ratio", "gold_momentum",
                   "silver_momentum", "copper_momentum", "macro_environment"}
    /\ \A k \in Produced : signals[k].score \in 1..5

\* C10: for every subset of available instruments the result holds one
\* momentum record per available instrument and none for a missing one,
\* a gold/silver record only if gold and silver are available (and then
\* exactly when the silver price is not 0), a copper/gold record only if
\* copper and gold are available (and then exactly when the gold price is
\* not 0), the macro record whenever an instrument is available, nothing
\* else, and nothing at all when no instrument is available.
C10_RecordsPerAvailability ==
    called = "generate_trading_signals" =>
        /\ \A key \in Instruments :
              MomentumKey(key) \in Produced <=> key \in Available
        /\ "gold_silver_ratio" \in Produced <=>
              /\ {"gold", "silver"} \subseteq Available
              /\ metal_data["silver"].futures_current[1] # 0
        /\ "copper_gold_ratio" \in Produced <=>
              /\ {"copper", "gold"} \subseteq Available
              /\ metal_data["gold"].futures_current[1] # 0
        /\ "macro_environment" \in Produced <=> Available # {}
        /\ Produced \subseteq {"gold_silver_ratio", "copper_gold_ratio",
                               "macro_environment"}
                              \cup {MomentumKey(key) : key \in Instruments}
        /\ Available = {} => signals = EmptyDict

\* C10 witness: only silver and copper available: two momentum records
\* and the macro record, no ratio record
C10_Witness ==
    /\ called = "generate_trading_signals"
    /\ Available = {"silver", "copper"}
    /\ Produced = {"silver_momentum", "copper_momentum", "macro_environment"}

----------------------------------------------------------------------------
(* Properties of the composite *)

\* how many produced records carry score v
CountScore(v) == Cardinality({k \in Produced : signals[k].score = v})

\* C8: the composite is the arithmetic mean of the scores of all produced
\* records, labelled by the first threshold it reaches in descending
\* order: >= 4.5 strong-buy, >= 3.5 buy, >= 2.5 neutral, >= 2.0 sell,
\* below 2.0 strong-sell.  Scores 5, 4, 3 give 4.0 and buy; no record at
\* all gives 3 and neutral.
C8_Composite ==
    (called = "composite" \/ (called = "main" /\ Available # {})) =>
        LET count == Cardinality(Produced)
            total == CountScore(1) + 2 * CountScore(2) + 3 * CountScore(3)
                       + 4 * CountScore(4) + 5 * CountScore(5)
            avg   == composite.avg_score
        IN  /\ ~IsNone(composite)
            /\ count = 0 =>
                  composite = [avg_score |-> R(3), sig_class |-> "signal-neutral"]
            /\ count > 0 =>
                  /\ avg[2] > 0
                  /\ avg[1] * count = total * avg[2]
                  /\ composite.sig_class =
                        IF 2 * total >= 9 * count THEN "signal-strong-buy"
                        ELSE IF 2 * total >= 7 * count THEN "signal-buy"
                        ELSE IF 2 * total >= 5 * count THEN "signal-neutral"
                        ELSE IF total >= 2 * count THEN "signal-sell"
                        ELSE "signal-strong-sell"
            /\ (/\ count = 3 /\ CountScore(5) = 1
                /\ CountScore(4) = 1 /\ CountScore(3) = 1)
                  => composite = [avg_score |-> R(4), sig_class |-> "signal-buy"]

\* C8 witness: three records scored 5, 4 and 3 combined to 4.0, buy
C8_Witness ==
    /\ called = "composite"
    /\ Cardinality(Produced) = 3
    /\ CountScore(5) = 1 /\ CountScore(4) = 1 /\ CountScore(3) = 1
    /\ composite = [avg_score |-> R(4), sig_class |-> "signal-buy"]

----------------------------------------------------------------------------
(* Reachability of the strong-sell outcomes *)

\* C11: the momentum tally only takes the values 0..3, so the branch
\* "tally <= -2 and day change < 0" is never taken: for every price
\* series no momentum record has level strong_sell or score 1.
C11_NoStrongSellMomentum ==
    called = "generate_trading_signals" =>
        \A key \in Available :
            /\ momentum_locals[key].momentum_score \in 0..3
            /\ momentum_locals[key].signal_level # "strong_sell"
            /\ signals[MomentumKey(key)].level # "strong_sell"
            /\ signals[MomentumKey(key)].score # 1

\* C11 witness: a series that fell about 19% over every window and 3% on
\* the day (closes 120 ... 120, 100, 97): tally 0, level sell, score 2
C11_Witness ==
    /\ called = "generate_trading_signals"
    /\ Available = {"copper"}
    /\ metal_data["copper"].etf_history
          = Piecewise(61, R(120), R(120), R(120), R(100), R(97))
    /\ RLt(momentum_locals["copper"].month_change, R(-5))
    /\ RLt(momentum_locals["copper"].quarter_change, R(-10))
    /\ RLt(momentum_locals["copper"].ytd_change, R(-15))
    /\ momentum_locals["copper"].etf_change = R(-3)
    /\ momentum_locals["copper"].momentum_score = 0
    /\ signals["copper_momentum"].level = "sell"
    /\ signals["copper_momentum"].score = 2

\* C12: every record generate_trading_signals produces scores at least 2,
\* so the average main() computes over its output lies between 2 and 5
\* and the composite class is never strong-sell, although the threshold
\* chain has that branch.
C12_CompositeNeverStrongSell ==
    (called = "main" /\ Available # {}) =>
        /\ ~IsNone(composite)
        /\ Produced # {}
        /\ \A k \in Produced : signals[k].score >= 2
        /\ composite.avg_score[2] > 0
        /\ composite.avg_score[1] >= 2 * composite.avg_score[2]
        /\ composite.avg_score[1] <= 5 * composite.avg_score[2]
        /\ composite.sig_class # "signal-strong-sell"

\* C12 witness: the lowest case: gold alone, down 3% on the day (sell, 2)
\* with the currency index up 2% (macro 2): average exactly 2.0, class sell
C12_Witness ==
    /\ called = "main"
    /\ Available = {"gold"}
    /\ Produced = {"gold_momentum", "macro_environment"}
    /\ signals["gold_momentum"].score = 2
    /\ signals["macro_environment"].score = 2
    /\ composite = [avg_score |-> R(2), sig_class |-> "signal-sell"]

====
